---- MODULE Spec2Model ----
(***************************************************************************)
(* khal/cli.py: the schema-driven configuration parser (Section and its    *)
(* four subclasses, ConfigParser.parse_config, validate) and the part of   *)
(* main_khal that loads the configuration and hands it to the calendar     *)
(* collection.                                                             *)
(*                                                                         *)
(* Raw strings of the file (section names, option values) are sequences of *)
(* one-character strings, so that lower(), strip(), the calendar regular   *)
(* expression, int() and the path expansion are computed character by      *)
(* character.  Option names and group names are identifiers of the code    *)
(* and are plain strings (RawConfigParser lower-cases option names when it *)
(* reads them).  Python values are tagged records: PyStr, PyBool, PyInt,   *)
(* PyTz, PyNone.                                                           *)
(*                                                                         *)
(* The RawConfigParser is the reader the code builds on: sections() is the *)
(* ordered list of distinct section names, each with its options.  Files   *)
(* with a [DEFAULT] block (the reader's own fallback section) are not part *)
(* of the inputs.  logger.debug output (dump) is not recorded.             *)
(***************************************************************************)
EXTENDS Integers, Sequences, FiniteSets, TLC

\* ------------------------------------------------------------------------
\* Bounds of the model
\* ------------------------------------------------------------------------
\* the longest file, counted in sections
MaxSections == 4

\* ------------------------------------------------------------------------
\* Python values
\* ------------------------------------------------------------------------
PyStr(s) == [str |-> s]
PyBool(b) == [bool |-> b]
PyInt(n) == [int |-> n]
PyTz(z) == [tz |-> z]
PyNone == [none |-> TRUE]

\* ------------------------------------------------------------------------
\* Character-level string functions
\* ------------------------------------------------------------------------
UpperChars == <<"A","B","C","D","E","F","G","H","I","J","K","L","M",
                "N","O","P","Q","R","S","T","U","V","W","X","Y","Z">>
LowerChars == <<"a","b","c","d","e","f","g","h","i","j","k","l","m",
                "n","o","p","q","r","s","t","u","v","w","x","y","z">>
DigitChars == <<"0","1","2","3","4","5","6","7","8","9">>

\* str.lower() on the letters A to Z
LowerOf == [c \in {UpperChars[i] : i \in DOMAIN UpperChars} |->
              LowerChars[CHOOSE i \in DOMAIN UpperChars : UpperChars[i] = c]]

\* str.lower() on one character
LowerChar(c) == IF c \in DOMAIN LowerOf THEN LowerOf[c] ELSE c

\* str.lower()
ToLower(s) == [i \in 1..Len(s) |-> LowerChar(s[i])]

RECURSIVE LStrip(_)
LStrip(s) == IF s # <<>> /\ Head(s) = " " THEN LStrip(Tail(s)) ELSE s

RECURSIVE RStrip(_)
RStrip(s) ==
    IF s # <<>> /\ s[Len(s)] = " " THEN RStrip(SubSeq(s, 1, Len(s) - 1)) ELSE s

\* str.strip()
StrStrip(s) == RStrip(LStrip(s))

\* s.startswith(p)
StartsWith(s, p) == Len(s) >= Len(p) /\ SubSeq(s, 1, Len(p)) = p

IsDigit(c) == \E i \in DOMAIN DigitChars : DigitChars[i] = c
DigitValue(c) == (CHOOSE i \in DOMAIN DigitChars : DigitChars[i] = c) - 1

RECURSIVE DigitsValue(_)
DigitsValue(s) ==
    IF s = <<>> THEN 0
    ELSE 10 * DigitsValue(SubSeq(s, 1, Len(s) - 1)) + DigitValue(s[Len(s)])

\* the string constants of the code
S_default == <<"d","e","f","a","u","l","t">>
S_locale == <<"l","o","c","a","l","e">>
S_sqlite == <<"s","q","l","i","t","e">>
S_calendars == <<"c","a","l","e","n","d","a","r","s">>
S_calendar_sp == <<"c","a","l","e","n","d","a","r"," ">>
S_true == <<"t","r","u","e">>
S_yes == <<"y","e","s">>
S_one == <<"1">>
S_agenda == <<"a","g","e","n","d","a">>
S_calendar == <<"c","a","l","e","n","d","a","r">>
S_new == <<"n","e","w">>
S_interactive == <<"i","n","t","e","r","a","c","t","i","v","e">>
S_printcalendars == <<"p","r","i","n","t","c","a","l","e","n","d","a","r","s">>
S_utf8 == <<"u","t","f","-","8">>
S_empty == <<>>

\* the environment of the process: the home directory, the XDG cache
\* directory and the names the timezone database resolves
HomeDir == <<"/","h">>
XdgCacheHome == <<"/","h","/",".","c">>
TzDatabase == { <<"U","T","C">>, <<"C","E","T">> }

\* ------------------------------------------------------------------------
\* Coercion functions (the filter_ of a schema entry)
\* ------------------------------------------------------------------------
S_dollar_home == <<"$","H","O","M","E">>

IsNameChar(c) ==
    \/ IsDigit(c)
    \/ c = "_"
    \/ \E i \in DOMAIN UpperChars : UpperChars[i] = c \/ LowerChars[i] = c

\* os.path.expandvars with the environment {HOME}: $HOME is replaced, a
\* reference to any other variable is left as it is
RECURSIVE ExpandVars(_)
ExpandVars(s) ==
    IF s = <<>> THEN <<>>
    ELSE IF /\ StartsWith(s, S_dollar_home)
            /\ (Len(s) = 5 \/ ~IsNameChar(s[6]))
         THEN HomeDir \o ExpandVars(SubSeq(s, 6, Len(s)))
         ELSE <<Head(s)>> \o ExpandVars(Tail(s))

\* os.path.expanduser: "~" and "~/..." get the home directory, "~user" of
\* an unknown user is left as it is
ExpandUser(s) ==
    IF ~StartsWith(s, <<"~">>) THEN s
    ELSE IF Len(s) = 1 \/ s[2] = "/" THEN HomeDir \o Tail(s)
    ELSE s

\* Section._parse_bool_string
ParseBoolString(value) ==
    LET v == ToLower(StrStrip(value))
    IN  IF v \in {S_true, S_yes, S_one} THEN TRUE ELSE FALSE

\* Section._parse_commands: the value, or None for a value out of the list
Commands == <<S_agenda, S_calendar, S_new, S_interactive, S_printcalendars>>

ParseCommands(command) ==
    IF ~(\E i \in DOMAIN Commands : Commands[i] = command)
    THEN PyNone
    ELSE PyStr(command)

\* int(x): blanks around, an optional sign, at least one digit
IntLiteralOk(x) ==
    LET v == StrStrip(x)
        d == IF v # <<>> /\ Head(v) \in {"+", "-"} THEN Tail(v) ELSE v
    IN  d # <<>> /\ \A i \in DOMAIN d : IsDigit(d[i])

IntValue(x) ==
    LET v == StrStrip(x)
    IN  IF Head(v) = "-" THEN 0 - DigitsValue(Tail(v))
        ELSE IF Head(v) = "+" THEN DigitsValue(Tail(v))
        ELSE DigitsValue(v)

\* the exception filter_(x) raises, "none" when it returns
FilterRaises(filter, x) ==
    CASE filter = "tz" /\ x \notin TzDatabase -> "UnknownTimeZoneError"
      [] filter = "int" /\ ~IntLiteralOk(x) -> "ValueError"
      [] OTHER -> "none"

\* the value filter_(x) returns
FilterValue(filter, x) ==
    CASE filter = "expand" -> PyStr(ExpandUser(ExpandVars(x)))
      [] filter = "bool" -> PyBool(ParseBoolString(x))
      [] filter = "tz" -> PyTz(x)
      [] filter = "int" -> PyInt(IntValue(x))
      [] filter = "commands" -> ParseCommands(x)
      [] OTHER -> PyStr(x)

\* what filter_(x) logs
FilterLog(filter, x) ==
    IF filter = "commands" /\ ParseCommands(x) = PyNone
    THEN << [error |-> "Invalid value for option 'default_command'",
             value |-> x] >>
    ELSE << >>

\* ------------------------------------------------------------------------
\* The section schemas
\* ------------------------------------------------------------------------
Field(o, d, f) == [option |-> o, default |-> d, filter |-> f]

CalendarSchema ==
    << Field("path", PyNone, "expand"),
       Field("readonly", PyBool(FALSE), "bool"),
       Field("color", PyStr(S_empty), "none") >>

DefaultDbPath == XdgCacheHome \o <<"/","k","h","a","l","/","k","h","a","l",".","d","b">>

SQLiteSchema ==
    << Field("path", PyStr(DefaultDbPath), "expand") >>

LocaleSchema ==
    << Field("local_timezone", PyNone, "tz"),
       Field("default_timezone", PyNone, "tz"),
       Field("timeformat", PyNone, "none"),
       Field("dateformat", PyNone, "none"),
       Field("longdateformat", PyNone, "none"),
       Field("datetimeformat", PyNone, "none"),
       Field("longdatetimeformat", PyNone, "none"),
       Field("firstweekday", PyInt(0), "int"),
       Field("encoding", PyStr(S_utf8), "none"),
       Field("unicode_symbols", PyBool(TRUE), "bool") >>

DefaultSchema ==
    << Field("debug", PyBool(FALSE), "bool"),
       Field("default_command", PyStr(S_calendar), "commands"),
       Field("default_calendar", PyBool(TRUE), "none") >>

\* ConfigParser._sections, in the order they are tried
SectionClasses ==
    << "DefaultSection", "LocaleSection", "SQLiteSection", "CalendarSection" >>

\* ConfigParser._required_sections
RequiredSections == << "DefaultSection", "LocaleSection", "CalendarSection" >>

Schema(cls) ==
    CASE cls = "DefaultSection" -> DefaultSchema
      [] cls = "LocaleSection" -> LocaleSchema
      [] cls = "SQLiteSection" -> SQLiteSchema
      [] cls = "CalendarSection" -> CalendarSchema

\* Section.group
Group(cls) ==
    CASE cls = "DefaultSection" -> "default"
      [] cls = "LocaleSection" -> "locale"
      [] cls = "SQLiteSection" -> "sqlite"
      [] cls = "CalendarSection" -> "calendars"

GroupString(cls) ==
    CASE cls = "DefaultSection" -> S_default
      [] cls = "LocaleSection" -> S_locale
      [] cls = "SQLiteSection" -> S_sqlite
      [] cls = "CalendarSection" -> S_calendars

IsCollection(cls) == cls = "CalendarSection"

\* re.match('calendar (?P<name>.*)', name, re.I)
CalendarRegexMatches(name) ==
    /\ Len(name) >= Len(S_calendar_sp)
    /\ ToLower(SubSeq(name, 1, Len(S_calendar_sp))) = S_calendar_sp

\* match.group('name')
CalendarRegexName(name) == SubSeq(name, Len(S_calendar_sp) + 1, Len(name))

\* Section.matches and CalendarSection.matches
Matches(cls, name) ==
    IF cls = "CalendarSection"
    THEN CalendarRegexMatches(name)
    ELSE GroupString(cls) = ToLower(name)

\* self._parsed once matches() has returned
ParsedAfterMatch(cls, name) ==
    IF cls = "CalendarSection" /\ CalendarRegexMatches(name)
    THEN [o \in {"name"} |-> PyStr(CalendarRegexName(name))]
    ELSE [o \in {} |-> PyNone]

\* ConfigParser._get_section_parser: the first class that matches, or "None"
RECURSIVE FirstMatch(_, _)
FirstMatch(i, name) ==
    IF i > Len(SectionClasses) THEN "None"
    ELSE IF Matches(SectionClasses[i], name) THEN SectionClasses[i]
    ELSE FirstMatch(i + 1, name)

GetSectionParser(name) == FirstMatch(1, name)

\* ------------------------------------------------------------------------
\* Section.parse
\* ------------------------------------------------------------------------
\* d[k] = v on a dict
SetItem(d, k, v) == [x \in (DOMAIN d) \cup {k} |-> IF x = k THEN v ELSE d[x]]

\* RawConfigParser.remove_option on the options of one section
RemoveOption(opts, o) == [x \in (DOMAIN opts) \ {o} |-> opts[x]]

\* ParseField as it would be if remove_option were left out after a value
\* was found and coerced
ParseFieldKeepsFound(field, section, st) ==
    IF field.option \in DOMAIN st.opts
    THEN LET x == st.opts[field.option]
         IN  IF FilterRaises(field.filter, x) # "none"
             THEN [st EXCEPT !.exc = FilterRaises(field.filter, x)]
             ELSE [st EXCEPT
                     !.parsed = SetItem(@, field.option, FilterValue(field.filter, x)),
                     !.log = @ \o FilterLog(field.filter, x)]
    ELSE [st EXCEPT
            !.failed = @ \/ (field.default = PyNone),
            !.log = IF field.default = PyNone
                    THEN Append(@, [error |-> "Missing required option",
                                    option |-> field.option,
                                    section |-> section])
                    ELSE @,
            !.parsed = SetItem(@, field.option, field.default),
            !.opts = RemoveOption(@, field.option)]

\* one pass of the loop over self._schema.  st.exc names the exception the
\* filter raised; nothing is caught but ConfigParserError (a missing option)
ParseField(field, section, st) ==
    IF field.option \in DOMAIN st.opts
    THEN LET x == st.opts[field.option]
         IN  IF FilterRaises(field.filter, x) # "none"
             THEN [st EXCEPT !.exc = FilterRaises(field.filter, x)]
             ELSE [st EXCEPT
                     !.parsed = SetItem(@, field.option, FilterValue(field.filter, x)),
                     !.log = @ \o FilterLog(field.filter, x),
                     !.opts = RemoveOption(@, field.option)]
    ELSE [st EXCEPT
            !.failed = @ \/ (field.default = PyNone),
            !.log = IF field.default = PyNone
                    THEN Append(@, [error |-> "Missing required option",
                                    option |-> field.option,
                                    section |-> section])
                    ELSE @,
            !.parsed = SetItem(@, field.option, field.default),
            !.opts = RemoveOption(@, field.option)]

RECURSIVE ParseFields(_, _, _, _)
ParseFields(schema, section, i, st) ==
    IF i > Len(schema) \/ st.exc # "none" THEN st
    ELSE ParseFields(schema, section, i + 1, ParseField(schema[i], section, st))

\* parser.parse(section) for the parser _get_section_parser returned:
\* [parsed, opts, failed, log, exc]; the call returns None when failed
ParseSection(cls, section, opts) ==
    ParseFields(Schema(cls), section, 1,
                [parsed |-> ParsedAfterMatch(cls, section),
                 opts |-> opts,
                 failed |-> FALSE,
                 log |-> << >>,
                 exc |-> "none"])

\* ------------------------------------------------------------------------
\* ConfigParser.parse_config
\* ------------------------------------------------------------------------
EmptyDict == [x \in {} |-> PyNone]

\* StoreValues as it would be if the collection were filled with
\* insert(0, values)
StoreValuesPrepends(items, cls, values) ==
    IF IsCollection(cls)
    THEN IF Group(cls) \in DOMAIN items
         THEN SetItem(items, Group(cls), << values >> \o items[Group(cls)])
         ELSE SetItem(items, Group(cls), << values >>)
    ELSE SetItem(items, Group(cls), values)

\* items[parser.group].append(values) / items[parser.group] = values
StoreValues(items, cls, values) ==
    IF IsCollection(cls)
    THEN IF Group(cls) \in DOMAIN items
         THEN SetItem(items, Group(cls), Append(items[Group(cls)], values))
         ELSE SetItem(items, Group(cls), << values >>)
    ELSE SetItem(items, Group(cls), values)

\* SectionStep as it would be if an unknown section set the failure flag
SectionStepUnknownFails(a, sec) ==
    LET cls == GetSectionParser(sec.name)
        r == ParseSection(cls, sec.name, sec.opts)
    IN  IF cls = "None"
        THEN [a EXCEPT
                !.failed = TRUE,
                !.log = Append(@, [warning |-> "Found unknown section",
                                   section |-> sec.name]),
                !.left = sec]
        ELSE IF r.exc # "none"
        THEN [a EXCEPT !.exc = r.exc,
                       !.log = @ \o r.log,
                       !.left = [sec EXCEPT !.opts = r.opts]]
        ELSE IF r.failed
        THEN [a EXCEPT !.failed = TRUE,
                       !.log = @ \o r.log,
                       !.left = [sec EXCEPT !.opts = r.opts]]
        ELSE [a EXCEPT !.items = StoreValues(@, cls, r.parsed),
                       !.log = @ \o r.log,
                       !.left = [sec EXCEPT !.opts = r.opts]]

\* the body of the loop over sections() on
\* a = [items, failed, exc, log, left]: left is the section as the loop
\* leaves it in the RawConfigParser
SectionStep(a, sec) ==
    LET cls == GetSectionParser(sec.name)
        r == ParseSection(cls, sec.name, sec.opts)
    IN  IF cls = "None"
        THEN [a EXCEPT
                !.log = Append(@, [warning |-> "Found unknown section",
                                   section |-> sec.name]),
                !.left = sec]
        ELSE IF r.exc # "none"
        THEN [a EXCEPT !.exc = r.exc,
                       !.log = @ \o r.log,
                       !.left = [sec EXCEPT !.opts = r.opts]]
        ELSE IF r.failed
        THEN [a EXCEPT !.failed = TRUE,
                       !.log = @ \o r.log,
                       !.left = [sec EXCEPT !.opts = r.opts]]
        ELSE [a EXCEPT !.items = StoreValues(@, cls, r.parsed),
                       !.log = @ \o r.log,
                       !.left = [sec EXCEPT !.opts = r.opts]]

\* ConfigParser.check_required: the groups that are missing, in order
MissingGroups(items) ==
    SelectSeq([i \in DOMAIN RequiredSections |-> Group(RequiredSections[i])],
              LAMBDA g : g \notin DOMAIN items)

CheckRequired(items) == MissingGroups(items) # << >>

CheckRequiredLog(items) ==
    [i \in DOMAIN MissingGroups(items) |->
        [error |-> "Missing required section", group |-> MissingGroups(items)[i]]]

\* ConfigParser.warn_leftovers: one warning per option left in the parser
OptionNames ==
    << "color", "debug", "dateformat", "datetimeformat", "default_calendar",
       "default_command", "default_timezone", "encoding", "firstweekday",
       "foo", "local_timezone", "longdateformat", "longdatetimeformat",
       "path", "readonly", "timeformat", "unicode_symbols" >>

SectionLeftovers(sec) ==
    LET left == SelectSeq(OptionNames, LAMBDA o : o \in DOMAIN sec.opts)
    IN  [i \in DOMAIN left |->
            [warning |-> "Ignoring unknow option",
             option |-> left[i], section |-> sec.name]]

RECURSIVE WarnLeftovers(_)
WarnLeftovers(sections) ==
    IF sections = << >> THEN << >>
    ELSE SectionLeftovers(Head(sections)) \o WarnLeftovers(Tail(sections))

\* ReturnValue as it would be if the flag of the loop were dropped
\* (failed = self.check_required(items))
ReturnValueDropsFlag(items, failed) ==
    IF CheckRequired(items) THEN PyNone ELSE items

\* the value parse_config returns once the loop is over
ReturnValue(items, failed) ==
    IF CheckRequired(items) \/ failed THEN PyNone ELSE items

\* ------------------------------------------------------------------------
\* validate
\* ------------------------------------------------------------------------
\* ValidCalendar as it would be if the names were compared without case
ValidCalendarAnyCase(c) ==
    \E i \in DOMAIN c["calendars"] :
        ToLower(c["calendars"][i]["name"].str)
            = ToLower(c["default"]["default_calendar"].str)

\* cal_name in [cal.name for cal in conf.calendars]
ValidCalendar(c) ==
    \E i \in DOMAIN c["calendars"] :
        c["calendars"][i]["name"] = c["default"]["default_calendar"]

\* ValidateConf as it would be with conf.calendars[-1] for conf.calendars[0]
ValidateConfTakesLast(c) ==
    IF c["default"]["default_calendar"] = PyBool(TRUE)
    THEN [c EXCEPT !["default"]["default_calendar"] =
                        c["calendars"][Len(c["calendars"])]["name"]]
    ELSE IF ~ValidCalendar(c) THEN PyNone
    ELSE c

\* validate: the configuration it returns, None for an invalid reference
ValidateConf(c) ==
    IF c["default"]["default_calendar"] = PyBool(TRUE)
    THEN [c EXCEPT !["default"]["default_calendar"] = c["calendars"][1]["name"]]
    ELSE IF ~ValidCalendar(c) THEN PyNone
    ELSE c

ValidateLog(c) ==
    IF c["default"]["default_calendar"] # PyBool(TRUE) /\ ~ValidCalendar(c)
    THEN << [fatal |-> "is not a valid calendar",
             name |-> c["default"]["default_calendar"]] >>
    ELSE << >>

\* ------------------------------------------------------------------------
\* The configuration files the model reads
\* ------------------------------------------------------------------------
V_UTC == <<"U","T","C">>
V_CET == <<"C","E","T">>
V_badtz == <<"M","a","r","s">>
V_fmt == <<"%","x">>
V_home == <<"h","o","m","e">>
V_work == <<"w","o","r","k">>
V_Work == <<"W","o","r","k">>
V_news == <<"n","e","w","s">>
V_red == <<"r","e","d">>

N_default == S_default
N_Default == <<"D","e","f","a","u","l","t">>
N_Locale == <<"L","o","c","a","l","e">>
N_sqlite == S_sqlite
N_calendar_home == S_calendar_sp \o V_home
N_Calendar_Work == <<"C","a","l","e","n","d","a","r"," ">> \o V_Work
N_calendars == S_calendars

Opt(o, v) == [x \in {o} |-> v]

LocaleFull ==
    Opt("local_timezone", V_UTC) @@ Opt("default_timezone", V_CET)
    @@ Opt("timeformat", V_fmt) @@ Opt("dateformat", V_fmt)
    @@ Opt("longdateformat", V_fmt) @@ Opt("datetimeformat", V_fmt)
    @@ Opt("longdatetimeformat", V_fmt)

DefaultOptions ==
    { EmptyDict,
      Opt("debug", <<"Y","e","s">>) @@ Opt("default_command", S_agenda)
        @@ Opt("default_calendar", V_home),
      Opt("default_command", V_news) @@ Opt("foo", V_red) }

\* a second section of the default kind: section names differ by case
DefaultAgainOptions ==
    { Opt("default_calendar", V_work) }

LocaleOptions ==
    { LocaleFull,
      LocaleFull @@ Opt("firstweekday", <<" ","1">>)
        @@ Opt("unicode_symbols", <<"N","o">>) @@ Opt("foo", V_red),
      RemoveOption(RemoveOption(LocaleFull, "timeformat"), "dateformat"),
      Opt("local_timezone", V_badtz) @@ LocaleFull,
      LocaleFull @@ Opt("firstweekday", <<"x">>) }

SqliteOptions ==
    { EmptyDict, Opt("path", <<"~","/","k">>) }

HomeOptions ==
    { Opt("path", <<"/","c">>), Opt("readonly", S_true) }

WorkOptions ==
    { Opt("path", <<"$","H","O","M","E","/","w">>)
        @@ Opt("readonly", <<"T","R","U","E">>) @@ Opt("color", V_red)
        @@ Opt("foo", V_fmt) }

UnknownOptions ==
    { Opt("path", <<"/","x">>) }

RawSections ==
    [name : {N_default}, opts : DefaultOptions]
    \cup [name : {N_Default}, opts : DefaultAgainOptions]
    \cup [name : {N_Locale}, opts : LocaleOptions]
    \cup [name : {N_sqlite}, opts : SqliteOptions]
    \cup [name : {N_calendar_home}, opts : HomeOptions]
    \cup [name : {N_Calendar_Work}, opts : WorkOptions]
    \cup [name : {N_calendars}, opts : UnknownOptions]

\* sections() lists every section name once
HasSection(f, name) == \E i \in DOMAIN f : f[i].name = name

\* the -a and the -d lists of the command line (the usage pattern allows
\* one of them at most)
ArgChoices ==
    { [a |-> {}, d |-> {}],
      [a |-> {V_home}, d |-> {}],
      [a |-> {}, d |-> {V_home}] }

\* ------------------------------------------------------------------------
\* State
\* ------------------------------------------------------------------------
VARIABLES
    file,         \* the sections RawConfigParser.read has read, in file order
    conf_parser,  \* self._conf_parser: the sections and the options left
    idx,          \* the position of the loop over sections()
    items,        \* parse_config: items
    failed,       \* parse_config: failed
    log,          \* what the logger has got (debug output left out)
    returned,     \* what parse_config returned, Pending before that
    conf,         \* main_khal: conf after validate
    collection,   \* main_khal: the calendars of the CalendarCollection
    exc,          \* the exception that ended the process, "none" otherwise
    exitMsg,      \* the argument of sys.exit, "" otherwise
    pc            \* the position in main_khal

vars == << file, conf_parser, idx, items, failed, log, returned,
           conf, collection, exc, exitMsg, pc >>

Pending == [pending |-> TRUE]

Init ==
    /\ file = << >>
    /\ conf_parser = << >>
    /\ idx = 1
    /\ items = EmptyDict
    /\ failed = FALSE
    /\ log = << >>
    /\ returned = Pending
    /\ conf = Pending
    /\ collection = << >>
    /\ exc = "none"
    /\ exitMsg = ""
    /\ pc = "read"

\* RawConfigParser.read takes the next section of the file
ReadSection ==
    /\ pc = "read"
    /\ Len(file) < MaxSections
    /\ \E sec \in RawSections :
        /\ ~HasSection(file, sec.name)
        /\ file' = Append(file, sec)
    /\ UNCHANGED << conf_parser, idx, items, failed, log, returned, conf,
                    collection, exc, exitMsg, pc >>

\* RawConfigParser.read has read the file to its end
ReadDone ==
    /\ pc = "read"
    /\ conf_parser' = file
    /\ pc' = "scan"
    /\ UNCHANGED << file, idx, items, failed, log, returned, conf, collection,
                    exc, exitMsg >>

\* RawConfigParser.read cannot read the file (it returns no file name, or
\* raises a ConfigParserError): parse_config returns None
ReadFails ==
    /\ pc = "read"
    /\ file = << >>
    /\ log' = Append(log, [error |-> "Cannot read config file"])
    /\ returned' = PyNone
    /\ pc' = "validate"
    /\ UNCHANGED << file, conf_parser, idx, items, failed, conf, collection,
                    exc, exitMsg >>

\* one pass of the loop of parse_config over sections()
ScanSection ==
    /\ pc = "scan"
    /\ idx <= Len(conf_parser)
    /\ LET sec == conf_parser[idx]
           a == SectionStep([items |-> items, failed |-> failed, exc |-> "none",
                             log |-> log, left |-> sec], sec)
       IN  /\ items' = a.items
           /\ failed' = a.failed
           /\ exc' = a.exc
           /\ log' = a.log
           /\ conf_parser' = [conf_parser EXCEPT ![idx] = a.left]
           /\ IF a.exc # "none"
              THEN pc' = "crashed" /\ idx' = idx
              ELSE pc' = "scan" /\ idx' = idx + 1
    /\ UNCHANGED << file, returned, conf, collection, exitMsg >>

\* parse_config after the loop: check_required, warn_leftovers, return
FinishParse ==
    /\ pc = "scan"
    /\ idx > Len(conf_parser)
    /\ failed' = (CheckRequired(items) \/ failed)
    /\ log' = log \o CheckRequiredLog(items) \o WarnLeftovers(conf_parser)
    /\ returned' = ReturnValue(items, failed)
    /\ pc' = "validate"
    /\ UNCHANGED << file, conf_parser, idx, items, conf, collection,
                    exc, exitMsg >>

\* main_khal: conf = validate(conf, logger)
Validate ==
    /\ pc = "validate"
    /\ IF returned = PyNone
       THEN /\ exc' = "AttributeError"
            /\ pc' = "crashed"
            /\ UNCHANGED << conf, log >>
       ELSE /\ conf' = ValidateConf(returned)
            /\ log' = log \o ValidateLog(returned)
            /\ pc' = "checked"
            /\ UNCHANGED exc
    /\ UNCHANGED << file, conf_parser, idx, items, failed, returned,
                    collection, exitMsg >>

\* main_khal: if conf is None: sys.exit(...)
ExitInvalid ==
    /\ pc = "checked"
    /\ conf = PyNone
    /\ exitMsg' = "Invalid config file, exiting."
    /\ pc' = "exited"
    /\ UNCHANGED << file, conf_parser, idx, items, failed, log,
                    returned, conf, collection, exc >>

\* whether main_khal takes the calendar into the collection
Selected(name, args) ==
    \/ name \in args.a /\ args.d = {}
    \/ name \notin args.d /\ args.a = {}

\* khalendar.Calendar(...) for one entry of conf.calendars
CalendarOf(c, cal) ==
    [name |-> cal["name"],
     dbpath |-> c["sqlite"]["path"],
     path |-> cal["path"],
     readonly |-> cal["readonly"],
     color |-> cal["color"],
     unicode_symbols |-> c["locale"]["unicode_symbols"],
     local_tz |-> c["locale"]["local_timezone"],
     default_tz |-> c["locale"]["default_timezone"]]

\* the calendars main_khal selects, in the order of conf.calendars
SelectedCalendars(c, args) ==
    SelectSeq(c["calendars"], LAMBDA cal : Selected(cal["name"].str, args))

\* main_khal: the loop that fills the CalendarCollection
BuildCollection ==
    /\ pc = "checked"
    /\ conf # PyNone
    /\ \E args \in ArgChoices :
        LET sel == SelectedCalendars(conf, args)
        IN  IF sel # << >> /\ "sqlite" \notin DOMAIN conf
            THEN /\ exc' = "AttributeError"
                 /\ pc' = "crashed"
                 /\ UNCHANGED collection
            ELSE /\ collection' = [i \in DOMAIN sel |-> CalendarOf(conf, sel[i])]
                 /\ pc' = "dispatch"
                 /\ UNCHANGED exc
    /\ UNCHANGED << file, conf_parser, idx, items, failed, log,
                    returned, conf, exitMsg >>

Next ==
    \/ ReadSection
    \/ ReadDone
    \/ ReadFails
    \/ ScanSection
    \/ FinishParse
    \/ Validate
    \/ ExitInvalid
    \/ BuildCollection

Spec == Init /\ [][Next]_vars

\* ------------------------------------------------------------------------
\* parse_config as a function of the sections read (the loop, then
\* check_required and the return): [raised |-> exception] when a filter
\* raised, [returned |-> value] otherwise
\* ------------------------------------------------------------------------
RECURSIVE ScanFrom(_, _, _)
ScanFrom(sections, i, a) ==
    IF i > Len(sections) \/ a.exc # "none" THEN a
    ELSE ScanFrom(sections, i + 1, SectionStep(a, sections[i]))

ParseConfigOutcome(sections) ==
    LET a == ScanFrom(sections, 1,
                      [items |-> EmptyDict, failed |-> FALSE, exc |-> "none",
                       log |-> << >>, left |-> << >>])
    IN  IF a.exc # "none" THEN [raised |-> a.exc]
        ELSE [returned |-> ReturnValue(a.items, a.failed)]

\* ------------------------------------------------------------------------
\* Vocabulary of the properties: the file as the specification describes it
\* ------------------------------------------------------------------------
\* the kind of section a header names
KindOf(name) ==
    LET lower == ToLower(name)
    IN  CASE lower = S_default -> "default"
          [] lower = S_locale -> "locale"
          [] lower = S_sqlite -> "sqlite"
          [] StartsWith(lower, S_calendar_sp) -> "calendar"
          [] OTHER -> "unknown"

\* the identifier of a "calendar <identifier>" header
HeaderName(name) == SubSeq(name, Len(S_calendar_sp) + 1, Len(name))

\* the fields the interface table declares, and those it requires
DeclaredFields(kind) ==
    CASE kind = "default" -> {"debug", "default_command", "default_calendar"}
      [] kind = "locale" ->
            {"local_timezone", "default_timezone", "timeformat", "dateformat",
             "longdateformat", "datetimeformat", "longdatetimeformat",
             "firstweekday", "encoding", "unicode_symbols"}
      [] kind = "sqlite" -> {"path"}
      [] kind = "calendar" -> {"path", "readonly", "color"}
      [] OTHER -> {}

RequiredFields(kind) ==
    CASE kind = "locale" ->
            {"local_timezone", "default_timezone", "timeformat", "dateformat",
             "longdateformat", "datetimeformat", "longdatetimeformat"}
      [] kind = "calendar" -> {"path"}
      [] OTHER -> {}

SectionsOfKind(f, kind) == SelectSeq(f, LAMBDA sec : KindOf(sec.name) = kind)

\* the last section of a kind in the file, << >> when there is none: a
\* later section of a kind replaces what an earlier one stored
LastOfKind(kind) ==
    LET secs == SectionsOfKind(file, kind)
    IN  IF secs = << >> THEN << >> ELSE << secs[Len(secs)] >>

HasAllRequired(sec) == RequiredFields(KindOf(sec.name)) \subseteq DOMAIN sec.opts

\* every timezone and firstweekday value of the section is one its coercion
\* accepts
ValuesAccepted(sec) ==
    KindOf(sec.name) = "locale" =>
        /\ \A o \in {"local_timezone", "default_timezone"} \cap DOMAIN sec.opts :
              sec.opts[o] \in TzDatabase
        /\ "firstweekday" \in DOMAIN sec.opts => IntLiteralOk(sec.opts["firstweekday"])

\* RawConfigParser.read failed: parse_config returned before the loop
ReadFailed == log # << >> /\ log[1] = [error |-> "Cannot read config file"]

\* parse_config has just returned after the loop over the sections (what
\* it wrote is not written again: main_khal only reads it)
ScanReturned == pc = "validate" /\ ~ReadFailed

\* a filter raised inside parse_config
ScanRaised == pc = "crashed" /\ returned = Pending

\* parse_config returned a configuration
Succeeded == ScanReturned /\ returned # PyNone

\* the sequence of the calendar names of a configuration
NamesOf(c) == [i \in DOMAIN c["calendars"] |-> c["calendars"][i]["name"]]

\* the identifiers of the calendar headers of the file, in file order
HeaderNames(f) ==
    LET cals == SectionsOfKind(f, "calendar")
    IN  [i \in DOMAIN cals |-> PyStr(HeaderName(cals[i].name))]

CalendarsAsInFile == Succeeded /\ NamesOf(returned) = HeaderNames(file)

\* ------------------------------------------------------------------------
\* C1
\* ------------------------------------------------------------------------
\* C1 as stated: a file with a default section, a locale section with all
\* its required fields and a calendar section with its path parses, and
\* calendars has one entry per calendar section, in file order, under the
\* name of its header.
C1_AsStated ==
    (/\ ScanReturned \/ ScanRaised
     /\ SectionsOfKind(file, "default") # << >>
     /\ \E i \in DOMAIN file : KindOf(file[i].name) = "locale" /\ HasAllRequired(file[i])
     /\ \E i \in DOMAIN file : KindOf(file[i].name) = "calendar" /\ HasAllRequired(file[i]))
    => CalendarsAsInFile

WellFormed(f) ==
    /\ SectionsOfKind(f, "default") # << >>
    /\ SectionsOfKind(f, "locale") # << >>
    /\ SectionsOfKind(f, "calendar") # << >>
    /\ \A i \in DOMAIN f : HasAllRequired(f[i]) /\ ValuesAccepted(f[i])

\* C1, amended: a file with a default, a locale and at least one calendar
\* section, in which every locale and every calendar section has all its
\* required fields and every timezone and firstweekday value is one its
\* coercion accepts, parses (whatever the order, whatever unknown sections
\* are mixed in), and calendars has one entry per calendar section, in file
\* order, under the name of its header.
C1_WellFormedFileParses ==
    ((ScanReturned \/ ScanRaised) /\ WellFormed(file)) => CalendarsAsInFile

C1_Witness ==
    /\ ScanReturned
    /\ WellFormed(file)
    /\ Len(SectionsOfKind(file, "calendar")) = 2
    /\ HeaderNames(file)[1] = PyStr(V_Work)

\* ------------------------------------------------------------------------
\* C2
\* ------------------------------------------------------------------------
SectionFailureLogged ==
    \E i \in DOMAIN log :
        /\ "error" \in DOMAIN log[i]
        /\ log[i].error = "Missing required option"

RequiredGroupAbsent ==
    \/ "default" \notin DOMAIN items
    \/ "locale" \notin DOMAIN items
    \/ "calendars" \notin DOMAIN items
    \/ items["calendars"] = << >>

\* C2: when the loop is over and a matched section has failed, or default,
\* locale or calendars is absent from what was assembled, parse_config
\* returns None, whatever else parsed.
C2_FailureReturnsNothing ==
    (ScanReturned /\ (SectionFailureLogged \/ RequiredGroupAbsent))
    => returned = PyNone

C2_Witness ==
    /\ ScanReturned
    /\ SectionFailureLogged
    /\ ~RequiredGroupAbsent
    /\ returned = PyNone

\* ------------------------------------------------------------------------
\* C3
\* ------------------------------------------------------------------------
Validated == conf # Pending

DefaultCalendarUnset ==
    /\ LastOfKind("default") # << >>
    /\ "default_calendar" \notin DOMAIN LastOfKind("default")[1].opts

\* C3: with default_calendar unset in the file, validate returns the
\* configuration with default_calendar set to the name of the first
\* calendar in file order, and nothing else changed.
C3_UnsetResolvesToFirst ==
    (Validated /\ DefaultCalendarUnset) =>
        /\ returned["default"]["default_calendar"] = PyBool(TRUE)
        /\ conf # PyNone
        /\ DOMAIN conf = DOMAIN returned
        /\ \A g \in DOMAIN conf \ {"default"} : conf[g] = returned[g]
        /\ DOMAIN conf["default"] = DOMAIN returned["default"]
        /\ \A o \in DOMAIN conf["default"] \ {"default_calendar"} :
              conf["default"][o] = returned["default"][o]
        /\ conf["default"]["default_calendar"] = HeaderNames(file)[1]

C3_Witness ==
    /\ Validated
    /\ DefaultCalendarUnset
    /\ Len(HeaderNames(file)) = 2
    /\ conf["default"]["default_calendar"] = PyStr(V_Work)

\* ------------------------------------------------------------------------
\* C4
\* ------------------------------------------------------------------------
\* the value the file gives default_calendar, << >> when it gives none
DefaultCalendarSet ==
    IF DefaultCalendarUnset \/ LastOfKind("default") = << >> THEN << >>
    ELSE << LastOfKind("default")[1].opts["default_calendar"] >>

NamesACalendar(v) ==
    \E i \in DOMAIN HeaderNames(file) : HeaderNames(file)[i] = PyStr(v)

FatalLogged ==
    \E i \in DOMAIN log : "fatal" \in DOMAIN log[i]

\* C4: with default_calendar set in the file, validate returns nothing (a
\* fatal failure) when no calendar has that name, and the configuration
\* unchanged when one has.
C4_SetMustNameACalendar ==
    (Validated /\ DefaultCalendarSet # << >>) =>
        IF NamesACalendar(DefaultCalendarSet[1])
        THEN conf = returned /\ ~FatalLogged
        ELSE conf = PyNone /\ FatalLogged

C4_Witness ==
    /\ Validated
    /\ DefaultCalendarSet = << V_work >>
    /\ NamesACalendar(V_Work)
    /\ conf = PyNone
    /\ pc = "exited"

\* ------------------------------------------------------------------------
\* C5
\* ------------------------------------------------------------------------
\* a default section of the file gives default_command a value out of the
\* list of commands
BadDefaultCommand ==
    \E i \in DOMAIN file :
        /\ KindOf(file[i].name) = "default"
        /\ "default_command" \in DOMAIN file[i].opts
        /\ \A k \in DOMAIN Commands : Commands[k] # file[i].opts["default_command"]

\* C5: a default_command out of the list fails the default section: no
\* default group is stored, the failure flag is set and parse_config
\* returns None.
C5_BadCommandFailsSection ==
    (ScanReturned /\ BadDefaultCommand) =>
        /\ "default" \notin DOMAIN items
        /\ failed
        /\ returned = PyNone

\* ------------------------------------------------------------------------
\* C6
\* ------------------------------------------------------------------------
\* the file without its unknown sections and undeclared options
StripSection(sec) ==
    [sec EXCEPT !.opts = [o \in (DOMAIN sec.opts) \cap DeclaredFields(KindOf(sec.name))
                            |-> sec.opts[o]]]

StripFile(f) ==
    LET known == SelectSeq(f, LAMBDA sec : KindOf(sec.name) # "unknown")
    IN  [i \in DOMAIN known |-> StripSection(known[i])]

\* how parse_config ended in this run
Outcome ==
    IF ScanRaised THEN [raised |-> exc] ELSE [returned |-> returned]

\* C6: parse_config ends on a file as it ends on the same file without its
\* unknown sections and undeclared options: the same success or failure,
\* the same values of the declared fields.
C6_UnknownsChangeNothing ==
    (ScanReturned \/ ScanRaised) => Outcome = ParseConfigOutcome(StripFile(file))

C6_Witness ==
    /\ Succeeded
    /\ \E i \in DOMAIN file : KindOf(file[i].name) = "unknown"
    /\ \E i \in DOMAIN file :
          /\ KindOf(file[i].name) # "unknown"
          /\ "foo" \in DOMAIN file[i].opts

\* ------------------------------------------------------------------------
\* C7
\* ------------------------------------------------------------------------
\* main_khal goes on with the configuration
HandedOver == conf # Pending /\ conf # PyNone

\* the value the interface table gives a field: the supplied value coerced,
\* the default when none is supplied
TableValue(schema, k, opts) ==
    IF schema[k].option \in DOMAIN opts
    THEN FilterValue(schema[k].filter, opts[schema[k].option])
    ELSE schema[k].default

GroupResolved(c, group, kind, schema) ==
    /\ group \in DOMAIN c
    /\ LET opts == IF LastOfKind(kind) = << >> THEN EmptyDict
                   ELSE LastOfKind(kind)[1].opts
       IN  \A k \in DOMAIN schema :
              \/ schema[k].option = "default_calendar"
              \/ /\ schema[k].option \in DOMAIN c[group]
                 /\ c[group][schema[k].option] = TableValue(schema, k, opts)
                 /\ c[group][schema[k].option] # PyNone

\* C7: a configuration handed to the application has default, locale,
\* sqlite and calendars, every field holding the supplied value coerced or
\* its default; sqlite.path holds the default cache path when the file
\* gives none, with or without a [sqlite] section.
C7_EveryFieldResolved ==
    HandedOver =>
        /\ GroupResolved(conf, "default", "default", DefaultSchema)
        /\ GroupResolved(conf, "locale", "locale", LocaleSchema)
        /\ GroupResolved(conf, "sqlite", "sqlite", SQLiteSchema)
        /\ "calendars" \in DOMAIN conf
        /\ NamesOf(conf) = HeaderNames(file)

\* ------------------------------------------------------------------------
\* C8
\* ------------------------------------------------------------------------
\* C8: when parse_config reports failure, validate is not applied to
\* anything and the load ends with sys.exit('Invalid config file,
\* exiting.'), in no other way.
C8_FailureExitsCleanly ==
    (returned = PyNone /\ pc # "validate") =>
        /\ pc = "exited"
        /\ exitMsg = "Invalid config file, exiting."
        /\ exc = "none"

\* ------------------------------------------------------------------------
\* C9
\* ------------------------------------------------------------------------
\* C9: once the file is read, the loop leaves no section out: when the
\* process is past the loop every section has been visited and
\* parse_config has run check_required and warn_leftovers and returned,
\* also when a section failed or a filter raised.
C9_ScanNeverExitsEarly ==
    (pc \notin {"read", "scan"} /\ ~ReadFailed) =>
        /\ idx = Len(conf_parser) + 1
        /\ returned # Pending

\* ------------------------------------------------------------------------
\* C10
\* ------------------------------------------------------------------------
\* the (section, option) pairs of the 'unknown option' warnings
WarnedOptions ==
    { << log[i].section, log[i].option >> :
        i \in { j \in DOMAIN log :
                  /\ "warning" \in DOMAIN log[j]
                  /\ log[j].warning = "Ignoring unknow option" } }

\* every option of an unknown section, every undeclared option of the others
UndeclaredOptions ==
    UNION { { << file[i].name, o >> :
                o \in (DOMAIN file[i].opts) \ DeclaredFields(KindOf(file[i].name)) } :
            i \in DOMAIN file }

\* C10: after the loop the options warned about are exactly the options of
\* the unknown sections and the undeclared options of the matched ones; a
\* declared field is never warned about, found or not, its section parsed
\* or failed.
C10_LeftoversAreTheUndeclared ==
    ScanReturned => WarnedOptions = UndeclaredOptions

C10_Witness ==
    /\ ScanReturned
    /\ SectionFailureLogged
    /\ \E i \in DOMAIN file :
          /\ KindOf(file[i].name) = "calendar"
          /\ "path" \notin DOMAIN file[i].opts
          /\ "readonly" \in DOMAIN file[i].opts
    /\ \E i \in DOMAIN file : KindOf(file[i].name) = "unknown"
    /\ \E i \in DOMAIN file :
          /\ KindOf(file[i].name) \notin {"unknown", "calendar"}
          /\ "foo" \in DOMAIN file[i].opts
====
